---- MODULE Spec2Model ----
(***************************************************************************)
(* Model of server/src/domain/types.rs: the typed values of the directory  *)
(* (Uuid, Serialized, UserId, JpegPhoto, AttributeType) with their         *)
(* constructors, the bincode codec behind Serialized, and Serialized's     *)
(* Debug rendering.                                                        *)
(*                                                                         *)
(* Every operation of the file is a synchronous function of its inputs, so *)
(* a behaviour is: an input is drawn (Init), then operations are applied   *)
(* to it, one action per operation.                                        *)
(*                                                                         *)
(* Representation.  A byte is a number in 0..255; a Vec<u8> is a sequence  *)
(* of bytes; a String is a sequence of Unicode code points (its UTF-8      *)
(* bytes are computed by EncodeUtf8).  An i64 does not fit TLC's 32-bit    *)
(* integers, so it is the record [neg, digits] of its sign and the decimal *)
(* digits of its magnitude, most significant first, without leading zeros; *)
(* a u64 hash is its 16 hexadecimal digits, most significant first.        *)
(***************************************************************************)
EXTENDS Integers, Sequences, FiniteSets, TLC

VARIABLES input, ser, out

vars == <<input, ser, out>>

(***************************************************************************)
(* Bounds of the model.                                                    *)
(***************************************************************************)
MaxTextLen == 3
MaxI64Digits == 3
MaxScanLen == 2
MaxUserIdLen == 3

(***************************************************************************)
(* Sequences.                                                              *)
(***************************************************************************)
RECURSIVE SeqsUpTo(_, _)
SeqsUpTo(S, n) ==
  IF n = 0 THEN {<<>>}
  ELSE LET shorter == SeqsUpTo(S, n - 1)
       IN  shorter \cup {Append(s, x) : s \in {t \in shorter : Len(t) = n - 1}, x \in S}

RECURSIVE Repeat(_, _)
Repeat(x, n) == IF n <= 0 THEN <<>> ELSE <<x>> \o Repeat(x, n - 1)

RECURSIVE Flatten(_)
Flatten(ss) == IF ss = <<>> THEN <<>> ELSE Head(ss) \o Flatten(Tail(ss))

Take(s, n) == SubSeq(s, 1, n)
Drop(s, n) == SubSeq(s, n + 1, Len(s))

RECURSIVE StripLeadingZeros(_)
StripLeadingZeros(ds) ==
  IF Len(ds) > 1 /\ Head(ds) = 0 THEN StripLeadingZeros(Tail(ds)) ELSE ds

(***************************************************************************)
(* Arithmetic on decimal digit sequences (the i64 values).                 *)
(***************************************************************************)
\* ds \div k and ds % k by long division; k is a small number.
RECURSIVE DivModSmall(_, _, _, _)
DivModSmall(ds, k, q, r) ==
  IF ds = <<>> THEN [q |-> StripLeadingZeros(IF q = <<>> THEN <<0>> ELSE q), r |-> r]
  ELSE LET cur == r * 10 + Head(ds)
       IN  DivModSmall(Tail(ds), k, Append(q, cur \div k), cur % k)

\* ds * k + c, digits processed from the least significant one.
RECURSIVE MulAddSmall(_, _, _)
MulAddSmall(ds, k, c) ==
  IF ds = <<>> THEN (IF c = 0 THEN <<>> ELSE MulAddSmall(<<>>, k, c \div 10) \o <<c % 10>>)
  ELSE LET cur == ds[Len(ds)] * k + c
       IN  MulAddSmall(Take(ds, Len(ds) - 1), k, cur \div 10) \o <<cur % 10>>

\* The n little-endian bytes of the magnitude ds (truncating, as a cast does).
RECURSIVE MagToLE(_, _)
MagToLE(ds, n) ==
  IF n = 0 THEN <<>>
  ELSE LET d == DivModSmall(ds, 256, <<>>, 0)
       IN  <<d.r>> \o MagToLE(d.q, n - 1)

\* The magnitude held by little-endian bytes.
RECURSIVE LEToMag(_)
LEToMag(bs) ==
  IF bs = <<>> THEN <<0>>
  ELSE LET hi == LEToMag(Tail(bs))
           m  == MulAddSmall(IF hi = <<0>> THEN <<>> ELSE hi, 256, Head(bs))
       IN  IF m = <<>> THEN <<0>> ELSE m

\* Two's complement negation of little-endian bytes: invert, add one.
RECURSIVE AddOneLE(_)
AddOneLE(bs) ==
  IF bs = <<>> THEN <<>>
  ELSE IF Head(bs) = 255 THEN <<0>> \o AddOneLE(Tail(bs))
       ELSE <<Head(bs) + 1>> \o Tail(bs)

NegateLE(bs) == AddOneLE([i \in 1..Len(bs) |-> 255 - bs[i]])

(***************************************************************************)
(* UTF-8: str::as_bytes and String::from_utf8 / str::from_utf8.            *)
(***************************************************************************)
EncodeUtf8Char(c) ==
  IF c < 128 THEN <<c>>
  ELSE IF c < 2048 THEN <<192 + (c \div 64), 128 + (c % 64)>>
  ELSE IF c < 65536 THEN <<224 + (c \div 4096), 128 + ((c \div 64) % 64), 128 + (c % 64)>>
  ELSE <<240 + (c \div 262144), 128 + ((c \div 4096) % 64),
         128 + ((c \div 64) % 64), 128 + (c % 64)>>

EncodeUtf8(cps) == Flatten([i \in 1..Len(cps) |-> EncodeUtf8Char(cps[i])])

IsCont(b) == b >= 128 /\ b <= 191

\* The length of the well-formed UTF-8 sequence at the head of bs, 0 when there
\* is none (overlong forms, surrogates and values above U+10FFFF are rejected).
Utf8Width(bs) ==
  LET n == Len(bs)
      b1 == bs[1]
  IN  IF b1 < 128 THEN 1
      ELSE IF b1 >= 194 /\ b1 <= 223
        THEN (IF n >= 2 /\ IsCont(bs[2]) THEN 2 ELSE 0)
      ELSE IF b1 >= 224 /\ b1 <= 239
        THEN (IF /\ n >= 3
                 /\ IsCont(bs[2]) /\ IsCont(bs[3])
                 /\ (b1 = 224 => bs[2] >= 160)
                 /\ (b1 = 237 => bs[2] <= 159)
              THEN 3 ELSE 0)
      ELSE IF b1 >= 240 /\ b1 <= 244
        THEN (IF /\ n >= 4
                 /\ IsCont(bs[2]) /\ IsCont(bs[3]) /\ IsCont(bs[4])
                 /\ (b1 = 240 => bs[2] >= 144)
                 /\ (b1 = 244 => bs[2] <= 143)
              THEN 4 ELSE 0)
      ELSE 0

Utf8Value(bs, w) ==
  IF w = 1 THEN bs[1]
  ELSE IF w = 2 THEN (bs[1] - 192) * 64 + (bs[2] - 128)
  ELSE IF w = 3 THEN (bs[1] - 224) * 4096 + (bs[2] - 128) * 64 + (bs[3] - 128)
  ELSE (bs[1] - 240) * 262144 + (bs[2] - 128) * 4096 + (bs[3] - 128) * 64 + (bs[4] - 128)

\* String::from_utf8: [ok |-> TRUE, v |-> the code points] or [ok |-> FALSE].
RECURSIVE DecodeUtf8(_)
DecodeUtf8(bs) ==
  IF bs = <<>> THEN [ok |-> TRUE, v |-> <<>>]
  ELSE LET w == Utf8Width(bs)
       IN  IF w = 0 THEN [ok |-> FALSE, v |-> <<>>]
           ELSE LET rest == DecodeUtf8(Drop(bs, w))
                IN  IF rest.ok THEN [ok |-> TRUE, v |-> <<Utf8Value(bs, w)>> \o rest.v]
                    ELSE rest

(***************************************************************************)
(* i64: its fixed-width encoding and its decimal text.                     *)
(***************************************************************************)
SERIALIZED_I64_LEN == 8

I64Val(neg, digits) == [neg |-> neg, digits |-> digits]

\* Mutant: the sign is dropped.
I64ToLEUnsigned(i) == MagToLE(i.digits, 8)

\* Mutant: bytes of value zero at the high end are dropped (a variable width).
RECURSIVE DropHighZeros(_)
DropHighZeros(bs) ==
  IF Len(bs) > 1 /\ bs[Len(bs)] = 0 THEN DropHighZeros(Take(bs, Len(bs) - 1)) ELSE bs

I64ToLEVariable(i) ==
  DropHighZeros(IF i.neg THEN NegateLE(MagToLE(i.digits, 8)) ELSE MagToLE(i.digits, 8))

\* bincode's fixint encoding of an i64: 8 bytes, little endian, two's complement.
I64ToLE(i) ==
  IF i.neg THEN NegateLE(MagToLE(i.digits, 8)) ELSE MagToLE(i.digits, 8)

LEToI64(b8) ==
  IF b8[8] >= 128 THEN I64Val(TRUE, LEToMag(NegateLE(b8)))
  ELSE I64Val(FALSE, LEToMag(b8))

\* i64::to_string
I64ToString(i) ==
  (IF i.neg THEN <<45>> ELSE <<>>) \o [k \in 1..Len(i.digits) |-> 48 + i.digits[k]]

(***************************************************************************)
(* NaiveDateTime: chrono's serde form is the text of its Debug rendering,  *)
(* YYYY-MM-DDTHH:MM:SS[.fraction], parsed back on deserialization.  Years  *)
(* are 0..9999 and leap seconds are left out.  A timestamp is the record   *)
(* [y, mo, d, h, mi, s, ns].                                               *)
(***************************************************************************)
IsDigit(c) == c >= 48 /\ c <= 57

\* The decimal digits of n, zero-padded to width w (the {:0w} format).
RECURSIVE Pad(_, _)
Pad(n, w) == IF w = 0 THEN <<>> ELSE Pad(n \div 10, w - 1) \o <<48 + (n % 10)>>

\* The number written by the digits cs.
RECURSIVE DigitsValue(_)
DigitsValue(cs) ==
  IF cs = <<>> THEN 0 ELSE DigitsValue(Take(cs, Len(cs) - 1)) * 10 + (cs[Len(cs)] - 48)

AllDigits(cs) == \A i \in 1..Len(cs) : IsDigit(cs[i])

IsLeapYear(y) == (y % 4 = 0 /\ y % 100 # 0) \/ y % 400 = 0

DaysInMonth(y, mo) ==
  IF mo = 2 THEN (IF IsLeapYear(y) THEN 29 ELSE 28)
  ELSE IF mo \in {4, 6, 9, 11} THEN 30 ELSE 31

ValidDateTime(t) ==
  /\ t.y >= 0 /\ t.y <= 9999
  /\ t.mo >= 1 /\ t.mo <= 12
  /\ t.d >= 1 /\ t.d <= DaysInMonth(t.y, t.mo)
  /\ t.h <= 23 /\ t.mi <= 59 /\ t.s <= 59
  /\ t.ns >= 0 /\ t.ns <= 999999999

FormatFraction(ns) ==
  IF ns = 0 THEN <<>>
  ELSE IF ns % 1000000 = 0 THEN <<46>> \o Pad(ns \div 1000000, 3)
  ELSE IF ns % 1000 = 0 THEN <<46>> \o Pad(ns \div 1000, 6)
  ELSE <<46>> \o Pad(ns, 9)

FormatDateTime(t) ==
  Pad(t.y, 4) \o <<45>> \o Pad(t.mo, 2) \o <<45>> \o Pad(t.d, 2) \o <<84>>
    \o Pad(t.h, 2) \o <<58>> \o Pad(t.mi, 2) \o <<58>> \o Pad(t.s, 2)
    \o FormatFraction(t.ns)

\* The nanoseconds written by 1 to 9 fraction digits.
RECURSIVE ScaleFraction(_, _)
ScaleFraction(n, k) == IF k >= 9 THEN n ELSE ScaleFraction(n * 10, k + 1)

ParseDateTime(cs) ==
  LET n == Len(cs)
      shape == /\ n >= 19
               /\ AllDigits(SubSeq(cs, 1, 4)) /\ cs[5] = 45
               /\ AllDigits(SubSeq(cs, 6, 7)) /\ cs[8] = 45
               /\ AllDigits(SubSeq(cs, 9, 10)) /\ cs[11] = 84
               /\ AllDigits(SubSeq(cs, 12, 13)) /\ cs[14] = 58
               /\ AllDigits(SubSeq(cs, 15, 16)) /\ cs[17] = 58
               /\ AllDigits(SubSeq(cs, 18, 19))
               /\ (n > 19 => /\ cs[20] = 46
                             /\ n >= 21 /\ n <= 29
                             /\ AllDigits(SubSeq(cs, 21, n)))
  IN  IF ~shape THEN [ok |-> FALSE]
      ELSE LET t == [y  |-> DigitsValue(SubSeq(cs, 1, 4)),
                     mo |-> DigitsValue(SubSeq(cs, 6, 7)),
                     d  |-> DigitsValue(SubSeq(cs, 9, 10)),
                     h  |-> DigitsValue(SubSeq(cs, 12, 13)),
                     mi |-> DigitsValue(SubSeq(cs, 15, 16)),
                     s  |-> DigitsValue(SubSeq(cs, 18, 19)),
                     ns |-> IF n = 19 THEN 0
                            ELSE ScaleFraction(DigitsValue(SubSeq(cs, 21, n)), n - 20)]
           IN  IF ValidDateTime(t) THEN [ok |-> TRUE, v |-> t] ELSE [ok |-> FALSE]

(***************************************************************************)
(* bincode 1.x with its default options: fixed-width little-endian         *)
(* integers, byte strings and text prefixed by their length as a u64,      *)
(* trailing bytes allowed on deserialization.                              *)
(***************************************************************************)
String == "String"
Integer == "Integer"
JpegPhoto == "JpegPhoto"
DateTime == "DateTime"

AttributeType == {String, Integer, JpegPhoto, DateTime}

Val(ty, v) == [ty |-> ty, v |-> v]
Ok(ty, v) == [ok |-> TRUE, ty |-> ty, v |-> v]
Err(e) == [ok |-> FALSE, err |-> e]

\* The k little-endian bytes of the small number n.
RECURSIVE NatToLE(_, _)
NatToLE(n, k) == IF k = 0 THEN <<>> ELSE <<n % 256>> \o NatToLE(n \div 256, k - 1)

SerializeBytes(bs) == NatToLE(Len(bs), 8) \o bs

\* bincode::serialize of a value of each supported type.
Serialize(x) ==
  IF x.ty = Integer THEN I64ToLE(x.v)
  ELSE IF x.ty = String THEN SerializeBytes(EncodeUtf8(x.v))
  ELSE IF x.ty = JpegPhoto THEN SerializeBytes(x.v)
  ELSE SerializeBytes(EncodeUtf8(FormatDateTime(x.v)))

\* Reads a length-prefixed byte slice.  A length that does not fit what is left
\* of the input (any length of 2^31 or more does not) is an UnexpectedEof.
ReadBytes(bs) ==
  IF Len(bs) < 8 THEN Err("UnexpectedEof")
  ELSE LET rest == Drop(bs, 8)
           huge == bs[4] >= 128 \/ \E i \in 5..8 : bs[i] # 0
           n    == bs[1] + 256 * bs[2] + 65536 * bs[3] + 16777216 * (bs[4] % 128)
       IN  IF huge \/ n > Len(rest) THEN Err("UnexpectedEof")
           ELSE [ok |-> TRUE, v |-> Take(rest, n)]

\* bincode::deserialize::<Vec<u8>>
DeserializeVec(bs) == ReadBytes(bs)

\* bincode::deserialize::<T> for the supported types T.
Deserialize(bs, ty) ==
  IF ty = Integer
    THEN (IF Len(bs) < 8 THEN Err("UnexpectedEof") ELSE Ok(Integer, LEToI64(Take(bs, 8))))
  ELSE LET r == ReadBytes(bs)
       IN  IF ~r.ok THEN r
           ELSE IF ty = JpegPhoto THEN Ok(JpegPhoto, r.v)
           ELSE LET u == DecodeUtf8(r.v)
                IN  IF ~u.ok THEN Err("InvalidUtf8Encoding")
                    ELSE IF ty = String THEN Ok(String, u.v)
                    ELSE LET t == ParseDateTime(u.v)
                         IN  IF t.ok THEN Ok(DateTime, t.v) ELSE Err("Custom")

(***************************************************************************)
(* Serialized: a Vec<u8> holding the bincode form of a value.              *)
(***************************************************************************)
\* impl From<&T> for Serialized
SerializedFrom(x) == Serialize(x)

\* Serialized::convert_to::<T>
ConvertTo(bs, ty) == Deserialize(bs, ty)

\* Result::unwrap / Result::expect: the value, or the thread panics.
Panic == Err("panic")
Panicked(r) == ~r.ok /\ r.err = "panic"

\* Serialized::unwrap::<T> and Serialized::expect::<T>
SerializedUnwrap(bs, ty) ==
  LET r == ConvertTo(bs, ty) IN IF r.ok THEN r ELSE Panic

(***************************************************************************)
(* impl Debug for Serialized.  The hash of the bytes (DefaultHasher, a     *)
(* SipHash of the bytes) is not computed here: h stands for its result,    *)
(* any 64-bit value, given as 16 hexadecimal digits.                       *)
(***************************************************************************)
HexUpper(n) == IF n < 10 THEN 48 + n ELSE 55 + n
HexLower(n) == IF n < 10 THEN 48 + n ELSE 87 + n

\* The hexadecimal digits of the small number n, without leading zeros.
RECURSIVE NatToHex(_)
NatToHex(n) == IF n < 16 THEN <<n>> ELSE NatToHex(n \div 16) \o <<n % 16>>

\* format!("{:#016X}", h): the 0x prefix counts in the minimum width of 16.
FormatHashHex(h) ==
  LET digits == StripLeadingZeros(h)
  IN  <<48, 120>> \o Repeat(48, 16 - 2 - Len(digits))
        \o [i \in 1..Len(digits) |-> HexUpper(digits[i])]

\* "hash: "
HashPrefix == <<104, 97, 115, 104, 58, 32>>

\* The String handed to debug_tuple's field.
DebugField(bs, h) ==
  LET r == DeserializeVec(bs)
      u == IF r.ok THEN DecodeUtf8(r.v) ELSE [ok |-> FALSE, v |-> <<>>]
  IN  IF u.ok THEN u.v
      ELSE LET i == IF Len(bs) = SERIALIZED_I64_LEN THEN ConvertTo(bs, Integer)
                    ELSE Err("InvalidCharEncoding")
           IN  IF i.ok THEN I64ToString(i.v)
               ELSE HashPrefix \o FormatHashHex(h)

\* Whether the rendering of bs falls back to the hash.
UsesHash(bs) ==
  LET r == DeserializeVec(bs)
  IN  /\ ~(r.ok /\ DecodeUtf8(r.v).ok)
      /\ Len(bs) # SERIALIZED_I64_LEN

\* char::escape_debug as <str as Debug> uses it, for ASCII and for printable
\* characters that extend no grapheme.
EscapeDebugChar(c) ==
  IF c = 0 THEN <<92, 48>>
  ELSE IF c = 9 THEN <<92, 116>>
  ELSE IF c = 10 THEN <<92, 110>>
  ELSE IF c = 13 THEN <<92, 114>>
  ELSE IF c = 34 THEN <<92, 34>>
  ELSE IF c = 92 THEN <<92, 92>>
  ELSE IF c < 32 \/ c = 127
    THEN <<92, 117, 123>> \o [i \in 1..Len(NatToHex(c)) |-> HexLower(NatToHex(c)[i])]
           \o <<125>>
  ELSE <<c>>

\* <str as Debug>::fmt
DebugStr(cs) ==
  <<34>> \o Flatten([i \in 1..Len(cs) |-> EscapeDebugChar(cs[i])]) \o <<34>>

\* "Serialized("
TupleOpen == <<83, 101, 114, 105, 97, 108, 105, 122, 101, 100, 40>>

\* <Serialized as Debug>::fmt with the {:?} format.
SerializedFmt(bs, h) == TupleOpen \o DebugStr(DebugField(bs, h)) \o <<41>>

(***************************************************************************)
(* Standard base64 (base64::engine::general_purpose::STANDARD): padded on  *)
(* encoding; on decoding the padding is required and the unused bits of    *)
(* the last symbol must be zero.                                           *)
(***************************************************************************)
B64Char(i) ==
  IF i < 26 THEN 65 + i
  ELSE IF i < 52 THEN 71 + i
  ELSE IF i < 62 THEN i - 4
  ELSE IF i = 62 THEN 43 ELSE 47

\* The value of a symbol, -1 for a character outside the alphabet.
B64Index(c) ==
  IF c >= 65 /\ c <= 90 THEN c - 65
  ELSE IF c >= 97 /\ c <= 122 THEN c - 71
  ELSE IF c >= 48 /\ c <= 57 THEN c + 4
  ELSE IF c = 43 THEN 62
  ELSE IF c = 47 THEN 63 ELSE -1

RECURSIVE Base64Encode(_)
Base64Encode(bs) ==
  IF bs = <<>> THEN <<>>
  ELSE IF Len(bs) = 1
    THEN <<B64Char(bs[1] \div 4), B64Char((bs[1] % 4) * 16), 61, 61>>
  ELSE IF Len(bs) = 2
    THEN <<B64Char(bs[1] \div 4), B64Char((bs[1] % 4) * 16 + bs[2] \div 16),
           B64Char((bs[2] % 16) * 4), 61>>
  ELSE <<B64Char(bs[1] \div 4), B64Char((bs[1] % 4) * 16 + bs[2] \div 16),
         B64Char((bs[2] % 16) * 4 + bs[3] \div 64), B64Char(bs[3] % 64)>>
         \o Base64Encode(Drop(bs, 3))

\* [ok |-> TRUE, v |-> bytes] or [ok |-> FALSE] (a DecodeError).
RECURSIVE Base64Decode(_)
Base64Decode(cs) ==
  IF cs = <<>> THEN [ok |-> TRUE, v |-> <<>>]
  ELSE IF Len(cs) < 4 THEN [ok |-> FALSE, v |-> <<>>]
  ELSE LET a == B64Index(cs[1])
           b == B64Index(cs[2])
           c == B64Index(cs[3])
           d == B64Index(cs[4])
           last == Len(cs) = 4
       IN  IF a < 0 \/ b < 0 THEN [ok |-> FALSE, v |-> <<>>]
           ELSE IF last /\ cs[3] = 61 /\ cs[4] = 61
             THEN (IF b % 16 = 0 THEN [ok |-> TRUE, v |-> <<a * 4 + b \div 16>>]
                   ELSE [ok |-> FALSE, v |-> <<>>])
           ELSE IF c < 0 THEN [ok |-> FALSE, v |-> <<>>]
           ELSE IF last /\ cs[4] = 61
             THEN (IF c % 4 = 0
                   THEN [ok |-> TRUE,
                         v |-> <<a * 4 + b \div 16, (b % 16) * 16 + c \div 4>>]
                   ELSE [ok |-> FALSE, v |-> <<>>])
           ELSE IF d < 0 THEN [ok |-> FALSE, v |-> <<>>]
           ELSE LET rest == Base64Decode(Drop(cs, 4))
                IN  IF rest.ok
                    THEN [ok |-> TRUE,
                          v |-> <<a * 4 + b \div 16, (b % 16) * 16 + c \div 4,
                                  (c % 4) * 64 + d>> \o rest.v]
                    ELSE rest

(***************************************************************************)
(* JpegPhoto: a Vec<u8>, empty or a JPEG stream.                           *)
(***************************************************************************)
\* The start-of-image and end-of-image markers of a JPEG stream.
SOI == <<255, 216>>
EOI == <<255, 217>>

\* Stands for image::io::Reader::with_format(.., Jpeg).decode() succeeding:
\* here a stream is a JPEG when it is SOI, scan bytes without a marker, EOI.
IsJpeg(bs) ==
  /\ Len(bs) >= 4
  /\ Take(bs, 2) = SOI
  /\ Drop(bs, Len(bs) - 2) = EOI
  /\ \A i \in 3..(Len(bs) - 2) : bs[i] # 255

\* JpegPhoto::null
JpegPhotoNull == Val(JpegPhoto, <<>>)

\* JpegPhoto::is_empty
JpegPhotoIsEmpty(p) == p.v = <<>>

\* JpegPhoto::into_bytes
JpegPhotoIntoBytes(p) == p.v

\* impl TryFrom<&[u8]> for JpegPhoto
JpegPhotoTryFromSlice(bytes) ==
  IF bytes = <<>> THEN Ok(JpegPhoto, JpegPhotoNull.v)
  ELSE IF ~IsJpeg(bytes) THEN Err("ImageError")
  ELSE Ok(JpegPhoto, bytes)

\* Mutant: the empty input is not set apart.
JpegPhotoTryFromVecNoNull(bytes) ==
  IF ~IsJpeg(bytes) THEN Err("ImageError") ELSE Ok(JpegPhoto, bytes)

\* impl TryFrom<Vec<u8>> for JpegPhoto
JpegPhotoTryFromVec(bytes) ==
  IF bytes = <<>> THEN Ok(JpegPhoto, JpegPhotoNull.v)
  ELSE IF ~IsJpeg(bytes) THEN Err("ImageError")
  ELSE Ok(JpegPhoto, bytes)

\* impl TryFrom<&str> for JpegPhoto
JpegPhotoTryFromStr(string) ==
  LET d == Base64Decode(string)
  IN  IF d.ok THEN JpegPhotoTryFromVec(d.v) ELSE Err("DecodeError")

\* impl From<&JpegPhoto> for String
JpegPhotoToString(p) == Base64Encode(p.v)

\* #[derive(Deserialize)] with serde_bytes: the bytes the data format hands
\* over become the photo.
JpegPhotoDeserialize(bytes) == Ok(JpegPhoto, bytes)

(***************************************************************************)
(* Uuid: a String.  uuid::Uuid is 16 bytes, here 32 hexadecimal digits.    *)
(***************************************************************************)
IsHexDigit(c) ==
  \/ c >= 48 /\ c <= 57
  \/ c >= 65 /\ c <= 70
  \/ c >= 97 /\ c <= 102

HexValue(c) == IF c <= 57 THEN c - 48 ELSE IF c <= 70 THEN c - 55 ELSE c - 87

\* The positions of the hyphens of the hyphenated form.
HyphenAt == {9, 14, 19, 24}

\* "urn:uuid:"
UrnPrefix == <<117, 114, 110, 58, 117, 117, 105, 100, 58>>

ParseSimple(cs) ==
  IF \A i \in 1..Len(cs) : IsHexDigit(cs[i])
  THEN [ok |-> TRUE, v |-> [i \in 1..Len(cs) |-> HexValue(cs[i])]]
  ELSE [ok |-> FALSE, v |-> <<>>]

ParseHyphenated(cs) ==
  IF \A i \in 1..Len(cs) : IF i \in HyphenAt THEN cs[i] = 45 ELSE IsHexDigit(cs[i])
  THEN ParseSimple(SelectSeq(cs, LAMBDA c : c # 45))
  ELSE [ok |-> FALSE, v |-> <<>>]

\* uuid::Uuid::parse_str: the simple, hyphenated, braced and URN forms.
ParseUuid(cs) ==
  LET n == Len(cs)
  IN  IF n = 32 THEN ParseSimple(cs)
      ELSE IF n = 36 THEN ParseHyphenated(cs)
      ELSE IF n = 38 /\ cs[1] = 123 /\ cs[38] = 125 THEN ParseHyphenated(SubSeq(cs, 2, 37))
      ELSE IF n = 45 /\ Take(cs, 9) = UrnPrefix THEN ParseHyphenated(Drop(cs, 9))
      ELSE [ok |-> FALSE, v |-> <<>>]

\* <uuid::Uuid as Display>: lowercase, hyphenated.
UuidToString(u) ==
  LET hex(a, b) == [i \in 1..(b - a + 1) |-> HexLower(u[a + i - 1])]
  IN  hex(1, 8) \o <<45>> \o hex(9, 12) \o <<45>> \o hex(13, 16) \o <<45>>
        \o hex(17, 20) \o <<45>> \o hex(21, 32)

\* uuid::Uuid::new_v3 on the MD5 digest of namespace and name: the version
\* digit becomes 3 and the variant bits 10.  The digest is not computed here.
UuidNewV3(digest) ==
  [i \in 1..32 |-> IF i = 13 THEN 3
                   ELSE IF i = 17 THEN 8 + (digest[i] % 4)
                   ELSE digest[i]]

\* Uuid::from_name_and_date
UuidFromNameAndDate(digest) == UuidToString(UuidNewV3(digest))

\* impl TryFrom<&str> for Uuid
UuidTryFrom(s) ==
  LET u == ParseUuid(s)
  IN  IF u.ok THEN Ok("Uuid", UuidToString(u.v)) ELSE Err("uuid::Error")

\* #[derive(Default)]: Uuid(String::default())
UuidDefault == <<>>

\* #[derive(Deserialize)] #[serde(try_from = "&str")]
UuidDeserialize(s) ==
  LET r == UuidTryFrom(s) IN IF r.ok THEN r ELSE Err("Custom")

\* Uuid::as_str
UuidAsStr(u) == u

(***************************************************************************)
(* UserId: a lowercased String.  str::to_lowercase and str::to_uppercase   *)
(* follow the Unicode case mappings, given here for ASCII, Latin-1, U+0130 *)
(* and the characters these lead to; any other character is uncased here. *)
(***************************************************************************)
ToLowerChar(c) ==
  IF c >= 65 /\ c <= 90 THEN <<c + 32>>
  ELSE IF c >= 192 /\ c <= 222 /\ c # 215 THEN <<c + 32>>
  ELSE IF c = 304 THEN <<105, 775>>
  ELSE IF c = 376 THEN <<255>>
  ELSE IF c = 924 THEN <<956>>
  ELSE <<c>>

ToUpperChar(c) ==
  IF c >= 97 /\ c <= 122 THEN <<c - 32>>
  ELSE IF c = 181 THEN <<924>>
  ELSE IF c = 223 THEN <<83, 83>>
  ELSE IF c >= 224 /\ c <= 254 /\ c # 247 THEN <<c - 32>>
  ELSE IF c = 255 THEN <<376>>
  ELSE IF c = 305 THEN <<73>>
  ELSE IF c = 956 THEN <<924>>
  ELSE <<c>>

ToLowercase(cs) == Flatten([i \in 1..Len(cs) |-> ToLowerChar(cs[i])])
ToUppercase(cs) == Flatten([i \in 1..Len(cs) |-> ToUpperChar(cs[i])])

\* Mutant: the text is stored as given.
UserIdNewAsGiven(user_id) == user_id

\* UserId::new
UserIdNew(user_id) == ToLowercase(user_id)

\* impl From<String> for UserId
UserIdFrom(s) == UserIdNew(s)

\* UserId::as_str
UserIdAsStr(u) == u

\* impl TryFromU64 for UserId
UserIdTryFromU64(n) == Err("ConvertFromU64")

(***************************************************************************)
(* AttributeType: read back from its name in a string column.              *)
(***************************************************************************)
\* strum's EnumString: the variant with exactly that name.
AttributeTypeFromStr(s) ==
  IF s \in AttributeType THEN Ok("AttributeType", s) ELSE Err("VariantNotFound")

\* Result::expect("Invalid enum value")
Expect(r) == IF r.ok THEN r ELSE Panic

\* impl ValueType for AttributeType: try_from(v: Value)
AttributeTypeTryFrom(v) ==
  IF v.variant # "String" \/ v.null THEN Err("ValueTypeErr")
  ELSE Expect(AttributeTypeFromStr(v.s))

\* impl TryGetable for AttributeType: try_get_by(res, index), the column
\* holding the value v
AttributeTypeTryGetBy(v) ==
  IF v.variant # "String" \/ v.null THEN Err("TryGetError")
  ELSE Expect(AttributeTypeFromStr(v.s))

(***************************************************************************)
(* The inputs the operations are applied to.                               *)
(***************************************************************************)
\* 'a', '"' and U+00DF (two bytes of UTF-8).
TextAlphabet == {97, 34, 223}
Texts == SeqsUpTo(TextAlphabet, MaxTextLen)

DigitAlphabet == {0, 1, 5}
Magnitudes ==
  {ds \in SeqsUpTo(DigitAlphabet, MaxI64Digits) : ds # <<>> /\ (Len(ds) > 1 => ds[1] # 0)}

\* i64::MAX and the magnitude of i64::MIN.
I64MaxDigits == <<9, 2, 2, 3, 3, 7, 2, 0, 3, 6, 8, 5, 4, 7, 7, 5, 8, 0, 7>>
I64MinDigits == <<9, 2, 2, 3, 3, 7, 2, 0, 3, 6, 8, 5, 4, 7, 7, 5, 8, 0, 8>>

I64s ==
  {I64Val(FALSE, ds) : ds \in Magnitudes}
    \cup {I64Val(TRUE, ds) : ds \in Magnitudes \ {<<0>>}}
    \cup {I64Val(FALSE, I64MaxDigits), I64Val(TRUE, I64MinDigits),
          I64Val(FALSE, <<1, 2, 3, 4>>), I64Val(TRUE, <<1, 0, 0, 0>>),
          I64Val(FALSE, <<2, 5, 6>>), I64Val(FALSE, <<4, 2, 9, 4, 9, 6, 7, 2, 9, 6>>)}

Epoch == [y |-> 1970, mo |-> 1, d |-> 1, h |-> 0, mi |-> 0, s |-> 0, ns |-> 0]

Timestamps ==
  {t \in [y : {1970, 2024}, mo : {2, 12}, d : {29, 31},
          h : {23}, mi : {59}, s : {0, 59}, ns : {0, 500000000, 1000, 1}] :
     ValidDateTime(t)} \cup {Epoch}

ScanAlphabet == {0, 97}
Scans == SeqsUpTo(ScanAlphabet, MaxScanLen)

Jpegs == {SOI \o sc \o EOI : sc \in Scans}

\* The JpegPhoto values Serialized::from is applied to.
Photos == Jpegs \cup {<<>>}

\* Results of DefaultHasher: every count of leading zero digits, and the value
\* the repository's test expects (0xB947C77A16F3C3BD).
HashSamples ==
  {Repeat(0, k) \o Repeat(11, 16 - k) : k \in 0..16}
    \cup {<<11, 9, 4, 7, 12, 7, 7, 10, 1, 6, 15, 3, 12, 3, 11, 13>>}

ZeroHash == Repeat(0, 16)

\* The byte strings a JpegPhoto is built from: JPEG streams and broken ones.
PhotoBytes ==
  Jpegs \cup Scans \cup {SOI \o sc : sc \in Scans} \cup {sc \o EOI : sc \in Scans}

\* The texts a JpegPhoto is built from: base64 of the above, and texts that
\* are no base64 ("!", a text cut short, unused bits set: "/x==").
PhotoTexts ==
  {Base64Encode(b) : b \in PhotoBytes}
    \cup {Take(Base64Encode(b), 3) : b \in Jpegs}
    \cup {<<33>>, <<47, 120, 61, 61>>}

\* MD5 digests, as 32 hexadecimal digits.
Digests == {Repeat(0, 32), Repeat(15, 32), [i \in 1..32 |-> (i * 7) % 16]}

\* The texts a Uuid is parsed from: every accepted form, and malformed ones.
UuidTexts ==
  LET canon == {UuidToString(d) : d \in Digests}
  IN  canon
        \cup {ToUppercase(c) : c \in canon}
        \cup {SelectSeq(c, LAMBDA x : x # 45) : c \in canon}
        \cup {<<123>> \o c \o <<125>> : c \in canon}
        \cup {UrnPrefix \o c : c \in canon}
        \cup {Take(c, 35) : c \in canon}
        \cup {<<103>> \o Tail(c) : c \in canon}
        \cup {[c EXCEPT ![9] = 97] : c \in canon}
        \cup {<<>>}

\* 'a', 'A', '1', U+00DF (sharp s) and U+0131 (dotless i).
UserIdAlphabet == {97, 65, 49, 223, 305}
UserIdTexts == SeqsUpTo(UserIdAlphabet, MaxUserIdLen)

IsAscii(cs) == \A i \in 1..Len(cs) : cs[i] < 128

\* The database values an AttributeType is read from.
TagTexts == AttributeType \cup {"integer", "Text", ""}
DbValues ==
  {[variant |-> "String", null |-> FALSE, s |-> t] : t \in TagTexts}
    \cup {[variant |-> "String", null |-> TRUE, s |-> ""],
          [variant |-> "Int", null |-> FALSE, s |-> ""]}

U64Samples == {0, 1, 2147483647}

NoSer == [set |-> FALSE, bytes |-> <<>>]
NoOut == [op |-> "none"]

In(kind, v) == [kind |-> kind, v |-> v]

Init ==
  /\ \/ \E t \in Texts : input = In("value", Val(String, t))
     \/ \E i \in I64s : input = In("value", Val(Integer, i))
     \/ \E b \in Photos : input = In("value", Val(JpegPhoto, b))
     \/ \E t \in Timestamps : input = In("value", Val(DateTime, t))
     \/ \E b \in PhotoBytes : input = In("bytes", b)
     \/ \E t \in PhotoTexts : input = In("base64", t)
     \/ \E t \in UuidTexts : input = In("uuid", t)
     \/ \E n \in Texts : input = In("name_date", [name |-> n, date |-> Epoch])
     \/ \E t \in UserIdTexts : input = In("user_id", t)
     \/ \E v \in DbValues : input = In("db_value", v)
     \/ \E n \in U64Samples : input = In("u64", n)
     \/ input = In("unit", <<>>)
  /\ ser = NoSer
  /\ out = NoOut

(***************************************************************************)
(* Operations on Serialized.                                               *)
(***************************************************************************)
DoSerializedFrom ==
  /\ input.kind = "value"
  /\ ser' = [set |-> TRUE, bytes |-> SerializedFrom(input.v)]
  /\ UNCHANGED <<input, out>>

DoConvertTo ==
  /\ ser.set
  /\ \E ty \in AttributeType :
       out' = [op |-> "convert_to", ty |-> ty, res |-> ConvertTo(ser.bytes, ty)]
  /\ UNCHANGED <<input, ser>>

DoUnwrap ==
  /\ ser.set
  /\ \E ty \in AttributeType : \E op \in {"unwrap", "expect"} :
       out' = [op |-> op, ty |-> ty, res |-> SerializedUnwrap(ser.bytes, ty)]
  /\ UNCHANGED <<input, ser>>

DoFmt ==
  /\ ser.set
  /\ \E h \in (IF UsesHash(ser.bytes) THEN HashSamples ELSE {ZeroHash}) :
       out' = [op |-> "fmt", hash |-> h, res |-> SerializedFmt(ser.bytes, h)]
  /\ UNCHANGED <<input, ser>>

(***************************************************************************)
(* Operations on JpegPhoto.                                                *)
(***************************************************************************)
PhotoOps ==
  {"JpegPhoto::try_from(&[u8])", "JpegPhoto::try_from(Vec<u8>)",
   "JpegPhoto::try_from(&str)", "JpegPhoto::deserialize", "JpegPhoto::null"}

DoJpegPhotoTryFromSlice ==
  /\ input.kind = "bytes"
  /\ out' = [op |-> "JpegPhoto::try_from(&[u8])", res |-> JpegPhotoTryFromSlice(input.v)]
  /\ UNCHANGED <<input, ser>>

DoJpegPhotoTryFromVec ==
  /\ input.kind = "bytes"
  /\ out' = [op |-> "JpegPhoto::try_from(Vec<u8>)", res |-> JpegPhotoTryFromVec(input.v)]
  /\ UNCHANGED <<input, ser>>

DoJpegPhotoTryFromStr ==
  /\ input.kind = "base64"
  /\ out' = [op |-> "JpegPhoto::try_from(&str)", res |-> JpegPhotoTryFromStr(input.v)]
  /\ UNCHANGED <<input, ser>>

DoJpegPhotoDeserialize ==
  /\ input.kind = "bytes"
  /\ out' = [op |-> "JpegPhoto::deserialize", res |-> JpegPhotoDeserialize(input.v)]
  /\ UNCHANGED <<input, ser>>

DoJpegPhotoNull ==
  /\ input.kind = "unit"
  /\ out' = [op |-> "JpegPhoto::null", res |-> Ok(JpegPhoto, JpegPhotoNull.v)]
  /\ UNCHANGED <<input, ser>>

DoIsEmpty ==
  /\ out.op \in PhotoOps
  /\ out.res.ok
  /\ out' = [op |-> "is_empty", of |-> out.op, res |-> JpegPhotoIsEmpty(out.res)]
  /\ UNCHANGED <<input, ser>>

DoIntoBytes ==
  /\ out.op \in PhotoOps
  /\ out.res.ok
  /\ out' = [op |-> "into_bytes", of |-> out.op, res |-> JpegPhotoIntoBytes(out.res)]
  /\ UNCHANGED <<input, ser>>

(***************************************************************************)
(* Operations on Uuid.                                                     *)
(***************************************************************************)
UuidOps ==
  {"Uuid::from_name_and_date", "Uuid::try_from", "Uuid::default", "Uuid::deserialize"}

DoUuidFromNameAndDate ==
  /\ input.kind = "name_date"
  /\ \E digest \in Digests :
       out' = [op |-> "Uuid::from_name_and_date",
               res |-> Ok("Uuid", UuidFromNameAndDate(digest))]
  /\ UNCHANGED <<input, ser>>

DoUuidTryFrom ==
  /\ input.kind = "uuid"
  /\ out' = [op |-> "Uuid::try_from", res |-> UuidTryFrom(input.v)]
  /\ UNCHANGED <<input, ser>>

DoUuidDeserialize ==
  /\ input.kind = "uuid"
  /\ out' = [op |-> "Uuid::deserialize", res |-> UuidDeserialize(input.v)]
  /\ UNCHANGED <<input, ser>>

DoUuidDefault ==
  /\ input.kind = "unit"
  /\ out' = [op |-> "Uuid::default", res |-> Ok("Uuid", UuidDefault)]
  /\ UNCHANGED <<input, ser>>

(***************************************************************************)
(* Operations on UserId.                                                   *)
(***************************************************************************)
DoUserIdNew ==
  /\ input.kind = "user_id"
  /\ out' = [op |-> "UserId::new(s)", res |-> Ok("UserId", UserIdNew(input.v))]
  /\ UNCHANGED <<input, ser>>

\* The same text in upper case, after UserId::new(s): both values are kept.
DoUserIdNewUpper ==
  /\ input.kind = "user_id"
  /\ out.op = "UserId::new(s)"
  /\ out' = [op |-> "UserId::new(s.to_uppercase())",
             first |-> out.res,
             res |-> Ok("UserId", UserIdNew(ToUppercase(input.v)))]
  /\ UNCHANGED <<input, ser>>

DoUserIdFrom ==
  /\ input.kind = "user_id"
  /\ out' = [op |-> "UserId::from", res |-> Ok("UserId", UserIdFrom(input.v))]
  /\ UNCHANGED <<input, ser>>

DoUserIdTryFromU64 ==
  /\ input.kind = "u64"
  /\ out' = [op |-> "UserId::try_from_u64", res |-> UserIdTryFromU64(input.v)]
  /\ UNCHANGED <<input, ser>>

(***************************************************************************)
(* Operations on AttributeType.                                            *)
(***************************************************************************)
DoAttributeTypeTryFrom ==
  /\ input.kind = "db_value"
  /\ out' = [op |-> "AttributeType::try_from", res |-> AttributeTypeTryFrom(input.v)]
  /\ UNCHANGED <<input, ser>>

DoAttributeTypeTryGetBy ==
  /\ input.kind = "db_value"
  /\ out' = [op |-> "AttributeType::try_get_by", res |-> AttributeTypeTryGetBy(input.v)]
  /\ UNCHANGED <<input, ser>>

Next ==
  \/ DoSerializedFrom
  \/ DoConvertTo
  \/ DoUnwrap
  \/ DoFmt
  \/ DoJpegPhotoTryFromSlice
  \/ DoJpegPhotoTryFromVec
  \/ DoJpegPhotoTryFromStr
  \/ DoJpegPhotoDeserialize
  \/ DoJpegPhotoNull
  \/ DoIsEmpty
  \/ DoIntoBytes
  \/ DoUuidFromNameAndDate
  \/ DoUuidTryFrom
  \/ DoUuidDeserialize
  \/ DoUuidDefault
  \/ DoUserIdNew
  \/ DoUserIdNewUpper
  \/ DoUserIdFrom
  \/ DoUserIdTryFromU64
  \/ DoAttributeTypeTryFrom
  \/ DoAttributeTypeTryGetBy

Spec == Init /\ [][Next]_vars

(***************************************************************************)
(* Properties.                                                             *)
(***************************************************************************)
DecodeOps == {"convert_to", "unwrap", "expect"}

\* The input is the i64 value i.
InputIsI64(i) == input.kind = "value" /\ input.v.ty = Integer /\ input.v.v = i

I64Min == I64Val(TRUE, I64MinDigits)

\* C1: a value of a supported type (text, i64, JpegPhoto, timestamp) encoded by
\* Serialized::from and decoded with that same type by convert_to, unwrap or
\* expect comes back equal.
C1_RoundTrip ==
  (out.op \in DecodeOps /\ out.ty = input.v.ty)
    => (out.res.ok /\ out.res.ty = input.v.ty /\ out.res.v = input.v.v)

\* i64::MIN has been encoded and unwrapped as an i64.
C1_Witness ==
  /\ out.op = "unwrap"
  /\ InputIsI64(I64Min)
  /\ out.ty = Integer
  /\ out.res.ok

\* C2: decoding with a type other than the encoded value's type is a failure:
\* convert_to returns an error, unwrap and expect abort.
C2_WrongTypeFails ==
  /\ (out.op = "convert_to" /\ out.ty # input.v.ty) => ~out.res.ok
  /\ (out.op \in {"unwrap", "expect"} /\ out.ty # input.v.ty) => Panicked(out.res)

\* C3: a JpegPhoto obtained through any construction path (the three TryFrom,
\* null, serde deserialization, decoding a Serialized) is empty or a JPEG.
C3_ValidateOnce ==
  ((out.op \in PhotoOps \/ (out.op \in DecodeOps /\ out.ty = JpegPhoto)) /\ out.res.ok)
    => (out.res.v = <<>> \/ IsJpeg(out.res.v))

BytesOps == {"JpegPhoto::try_from(&[u8])", "JpegPhoto::try_from(Vec<u8>)"}

\* C4: from bytes b, by the slice and by the Vec constructor: empty b gives the
\* null photo, which is empty; b that is not empty and no JPEG gives an error;
\* a JPEG b gives a photo whose into_bytes is b.
C4_TryFromBytes ==
  /\ out.op \in BytesOps =>
       /\ input.v = <<>> =>
            out.res.ok /\ out.res.v = JpegPhotoNull.v /\ JpegPhotoIsEmpty(out.res)
       /\ (input.v # <<>> /\ ~IsJpeg(input.v)) => ~out.res.ok
       /\ IsJpeg(input.v) => out.res.ok /\ JpegPhotoIntoBytes(out.res) = input.v
  /\ (out.op = "into_bytes" /\ out.of \in BytesOps) => out.res = input.v
  /\ (out.op = "is_empty" /\ out.of \in BytesOps) => out.res = (input.v = <<>>)

\* A JPEG with scan data went through the Vec constructor and into_bytes.
C4_Witness ==
  /\ out.op = "into_bytes"
  /\ out.of = "JpegPhoto::try_from(Vec<u8>)"
  /\ IsJpeg(input.v)
  /\ Len(input.v) > 4

\* C5: the text of every Uuid obtained from from_name_and_date, TryFrom<&str>,
\* Default::default or deserialization parses as a UUID.
C5_UuidParses ==
  (out.op \in UuidOps /\ out.res.ok) => ParseUuid(UuidAsStr(out.res.v)).ok

\* C6: for all strings s, UserId::new(s) == UserId::new(s.to_uppercase()).
C6_CaseFold ==
  out.op = "UserId::new(s.to_uppercase())" => out.res = out.first

\* C6 as amended: for all ASCII strings s,
\* UserId::new(s) == UserId::new(s.to_uppercase()).
C6_CaseFoldAscii ==
  (out.op = "UserId::new(s.to_uppercase())" /\ IsAscii(input.v)) => out.res = out.first

\* An ASCII text with a lower-case letter went through both calls.
C6_Witness ==
  /\ out.op = "UserId::new(s.to_uppercase())"
  /\ IsAscii(input.v)
  /\ ToUppercase(input.v) # input.v

ConstructionOps ==
  {"Uuid::try_from", "Uuid::deserialize", "JpegPhoto::try_from(&[u8])",
   "JpegPhoto::try_from(Vec<u8>)", "JpegPhoto::try_from(&str)",
   "AttributeType::try_from", "AttributeType::try_get_by", "UserId::try_from_u64"}

\* C7: no operation that builds a typed value from external text or bytes
\* aborts: each returns the value or an error.
C7_NoPanic ==
  out.op \in ConstructionOps => ~Panicked(out.res)

Rendered(text) == TupleOpen \o <<34>> \o text \o <<34, 41>>

\* C8: the Debug rendering of an encoded i64 v is Serialized("<decimal of v>").
C8_DebugInteger ==
  (out.op = "fmt" /\ input.v.ty = Integer) => out.res = Rendered(I64ToString(input.v.v))

\* C9: when the bytes decode neither as UTF-8 text nor as an 8-byte integer,
\* the rendering is the hash as 0x and exactly 16 upper-case hexadecimal digits.
C9_Fingerprint ==
  (out.op = "fmt" /\ UsesHash(ser.bytes))
    => out.res = Rendered(HashPrefix \o <<48, 120>> \o [i \in 1..16 |-> HexUpper(out.hash[i])])

\* C10: the encoding of every i64 is exactly SERIALIZED_I64_LEN = 8 bytes.
C10_I64Len ==
  (ser.set /\ input.v.ty = Integer) => Len(ser.bytes) = SERIALIZED_I64_LEN

\* i64::MIN has been encoded.
C10_Witness ==
  /\ ser.set
  /\ InputIsI64(I64Min)
  /\ Len(ser.bytes) = 8

====
